---- MODULE Spec2Model ----
(***************************************************************************)
(* Model of serial_server.py: a bridge that shares one serial device       *)
(* between many TCP clients.  LineBuf, Client, Serial, process_serial,     *)
(* process_clients and run are modelled from the source; the peers, the    *)
(* kernel socket buffers and the serial device are the environment.        *)
(* wait_for_response of serial_client.py is modelled on its own.           *)
(***************************************************************************)
EXTENDS Integers, Sequences, FiniteSets, TLC

(***************************************************************************)
(* Bounds of the model                                                     *)
(***************************************************************************)
\* total number of bytes written to the stand-alone LineBuf
LBMaxIn == 4
\* longest chunk handed to one LineBuf.write in the stand-alone LineBuf
LBMaxChunk == 2
\* number of TCP connections the peers open in a run
MaxConns == 3
\* number of peers connected at the same time
MaxLive == 2
\* total number of bytes all peers send in a run
MaxClientBytes == 3
\* number of bytes the serial device produces in a run
MaxSerialReads == 2
\* bytes a socket's send path holds while the peer does not read
SndBuf == 1
\* total number of inputs (connections, client bytes, serial bytes) of a run
MaxInputs == 5
\* number of operations applied to the stand-alone registry
RGMaxOps == 4
\* number of bytes the device sends while wait_for_response runs
WMaxReads == 3

(***************************************************************************)
(* Program constants                                                       *)
(***************************************************************************)
\* b"\n"
NL == 10
\* size argument of sock.recv
RecvSize == 1024
\* descriptor of the serial device (opened first) and of the server socket
FdSerial == 3
FdServer == 4
\* the bytes peers send
ClientBytes == {NL, 65}
\* the i-th byte the serial device produces (neighbours differ)
SerialByte(i) == 112 + (i % 2)

(***************************************************************************)
(* Sequence helpers                                                        *)
(***************************************************************************)
RECURSIVE Flatten(_)
Flatten(ss) == IF ss = <<>> THEN <<>> ELSE Head(ss) \o Flatten(Tail(ss))

RECURSIVE CountNL(_)
CountNL(s) == IF s = <<>> THEN 0
              ELSE (IF Head(s) = NL THEN 1 ELSE 0) + CountNL(Tail(s))

\* the newline-terminated segments of s, in order (an unterminated tail is
\* not a segment)
RECURSIVE SplitLines(_, _)
SplitLines(s, cur) ==
    IF s = <<>> THEN <<>>
    ELSE IF Head(s) = NL
         THEN <<Append(cur, NL)>> \o SplitLines(Tail(s), <<>>)
         ELSE SplitLines(Tail(s), Append(cur, Head(s)))

Lines(s) == SplitLines(s, <<>>)

\* the part of s up to and including its last newline
UpToLastNL(s) == Flatten(Lines(s))

\* a is a (not necessarily contiguous) subsequence of b
RECURSIVE IsSubsequence(_, _)
IsSubsequence(a, b) ==
    IF a = <<>> THEN TRUE
    ELSE IF b = <<>> THEN FALSE
    ELSE IF Head(a) = Head(b) THEN IsSubsequence(Tail(a), Tail(b))
    ELSE IsSubsequence(a, Tail(b))

\* all sequences over S of length lo..hi
SeqsOf(S, lo, hi) == UNION {[1..n -> S] : n \in lo..hi}

Min(a, b) == IF a < b THEN a ELSE b

(***************************************************************************)
(* LineBuf: an io.BytesIO (its bytes and its stream position)              *)
(***************************************************************************)
\* io.BytesIO(initial): the stream position starts at 0
BytesIO(initial) == [data |-> initial, pos |-> 0]

\* LineBuf.__init__
LineBufInit == BytesIO(<<>>)

\* io.BytesIO.write: writes at the stream position, over bytes already
\* there, and advances the position
BytesIOWrite(b, d) ==
    [data |-> SubSeq(b.data, 1, b.pos) \o d
              \o SubSeq(b.data, b.pos + Len(d) + 1, Len(b.data)),
     pos  |-> b.pos + Len(d)]

\* a write that replaces the content of the buffer
LineBufWriteFresh(b, d) == [data |-> d, pos |-> Len(d)]

\* LineBuf.write
LineBufWrite(b, d) == BytesIOWrite(b, d)

\* bytes.find(b"\n"): 0-based index of the first newline, -1 if none
Find(data) ==
    IF \E i \in 1..Len(data) : data[i] = NL
    THEN (CHOOSE i \in 1..Len(data) :
             data[i] = NL /\ \A j \in 1..(i - 1) : data[j] # NL) - 1
    ELSE -1

\* LineBuf.readline with the line cut before its newline (data[0 : pos])
LineBufReadlineShort(b) ==
    LET data == b.data
        pos  == Find(data)
    IN IF pos = -1
       THEN [ok |-> FALSE, line |-> <<>>, buf |-> b]
       ELSE [ok |-> TRUE,
             line |-> SubSeq(data, 1, pos),
             buf  |-> BytesIO(SubSeq(data, pos + 2, Len(data)))]

\* a readline that hands out the whole buffer once it holds a newline
LineBufReadlineAll(b) ==
    IF Find(b.data) = -1
    THEN [ok |-> FALSE, line |-> <<>>, buf |-> b]
    ELSE [ok |-> TRUE, line |-> b.data, buf |-> BytesIO(<<>>)]

\* LineBuf.readline: ok = FALSE is the None result
LineBufReadline(b) ==
    LET data == b.data
        pos  == Find(data)
    IN IF pos = -1
       THEN [ok |-> FALSE, line |-> <<>>, buf |-> b]
       ELSE [ok |-> TRUE,
             line |-> SubSeq(data, 1, pos + 1),
             buf  |-> BytesIO(SubSeq(data, pos + 2, Len(data)))]

\* an if in place of the while: one line is taken at most
DrainOne(b) ==
    LET res == LineBufReadline(b)
    IN IF res.ok THEN [lines |-> <<res.line>>, buf |-> res.buf]
       ELSE [lines |-> <<>>, buf |-> b]

\* while line := c.readline(): ... ; the lines taken and the buffer left
RECURSIVE Drain(_)
Drain(b) ==
    LET res == LineBufReadline(b)
    IN IF ~res.ok \/ res.line = <<>>
       THEN [lines |-> <<>>, buf |-> res.buf]
       ELSE LET rest == Drain(res.buf)
            IN [lines |-> <<res.line>> \o rest.lines, buf |-> rest.buf]

(***************************************************************************)
(* State                                                                   *)
(***************************************************************************)
VARIABLES
    \* the stand-alone LineBuf and the record of what was done to it
    lb, lbIn, lbOut, lbLast, lbMixed,
    \* run(): position in the loop body, select's result r, the registry
    \* (a dict: entries in insertion order), remove_clients, and the loop
    \* variable c when it is bound to a client that is not registered (else
    \* 0).  ready_clients is the list process_clients walks (pq below); the
    \* removed clients it still holds are held by remove_clients as well,
    \* which run() rebinds later.
    pc, r, clients, remove_clients, c,
    \* process_serial: the clients still to be written
    bq,
    \* process_clients: the clients still to be read, its local remove list
    pq, rm,
    \* the Client objects: their LineBuf and their socket's descriptor
    \* (0: not accepted yet); the Serial object's LineBuf
    cbuf, fdOf, serbuf,
    \* environment: connections opened, the listen backlog, each peer's
    \* state, bytes sent by the peer and not yet received, bytes sent to
    \* the peer and not yet read by it, the serial device's state
    nconn, backlog, st, inq, unread, serSt,
    \* record of the run: number of bytes the peers sent, all serial bytes
    \* read, the events of the current iteration and, for each client until
    \* its removal: the bytes recv returned, the lines written to the serial
    \* device for it, the bytes send delivered to its peer, and the number of
    \* serial bytes read before it was registered
    nsent, serLog, trace, rcvd, fwd, delivered, joined,
    \* the stand-alone registry: the dict, the key of the last operation,
    \* how that operation ended and the number of operations so far
    rgD, rgKey, rgOut, rgN,
    \* wait_for_response: position, data, newline, found_prompt, the lines
    \* it prints at its end, the break that left the loop; the clock (has
    \* start + timeout passed), the peer (has it closed the stream); and
    \* the record of the bytes read and of the bytes written to stdout
    wPc, wData, wNl, wFound, wMsg, wExit, wExpired, wEof, wAll, wOut

lbvars == <<lb, lbIn, lbOut, lbLast, lbMixed>>

rgvars == <<rgD, rgKey, rgOut, rgN>>

wvars == <<wPc, wData, wNl, wFound, wMsg, wExit, wExpired, wEof, wAll, wOut>>

\* the variables of the parts that are modelled on their own
alonevars == <<lbvars, rgvars, wvars>>

runvars == <<pc, r, clients, remove_clients, c, bq, pq, rm, cbuf, fdOf,
             serbuf>>

envvars == <<nconn, backlog, st, inq, unread, serSt>>

histvars == <<nsent, serLog, trace, rcvd, fwd, delivered, joined>>

vars == <<alonevars, runvars, envvars, histvars>>

Conns == 1..MaxConns

(***************************************************************************)
(* The stand-alone LineBuf: any interleaving of write and readline         *)
(***************************************************************************)
LBInit ==
    /\ lb = LineBufInit
    /\ lbIn = <<>>
    /\ lbOut = <<>>
    /\ lbLast = "init"
    /\ lbMixed = FALSE

\* LineBuf.write(d)
LBWrite ==
    \E d \in SeqsOf(ClientBytes, 1, LBMaxChunk) :
        /\ Len(lbIn) + Len(d) <= LBMaxIn
        /\ lb' = LineBufWrite(lb, d)
        /\ lbIn' = lbIn \o d
        /\ lbLast' = "write"
        /\ lbMixed' = (lbMixed \/ lbLast \in {"line", "none"})
        /\ UNCHANGED lbOut

\* LineBuf.readline()
LBReadline ==
    LET res == LineBufReadline(lb)
    IN /\ lb' = res.buf
       /\ lbOut' = IF res.ok THEN Append(lbOut, res.line) ELSE lbOut
       /\ lbLast' = IF res.ok THEN "line" ELSE "none"
       /\ UNCHANGED <<lbIn, lbMixed>>

(***************************************************************************)
(* The registry (a dict keyed by descriptor) and the sockets               *)
(***************************************************************************)
\* the Client objects of a list of registry entries, in order
ClientsOf(d) == [i \in 1..Len(d) |-> d[i].cl]

\* elements of a sequence as a set
Range(s) == {s[i] : i \in 1..Len(s)}

Registered == Range(ClientsOf(clients))

Keys(d) == {d[i].fd : i \in 1..Len(d)}

\* clients[fd] = cl: a present key keeps its place, a new key goes last
DictSet(d, fd, cl) ==
    IF fd \in Keys(d)
    THEN [i \in 1..Len(d) |-> IF d[i].fd = fd THEN [fd |-> fd, cl |-> cl]
                                               ELSE d[i]]
    ELSE Append(d, [fd |-> fd, cl |-> cl])

\* del clients[fd]
DictDel(d, fd) == SelectSeq(d, LAMBDA e : e.fd # fd)

\* the statement del clients[fd] (ok = FALSE: the key is missing and the
\* statement raises KeyError)
Del(d, fd) ==
    IF fd \in Keys(d) THEN [d |-> DictDel(d, fd), ok |-> TRUE]
    ELSE [d |-> d, ok |-> FALSE]

\* a Client object (and with it its socket, which nothing closes) lives
\* while something refers to it: the registry, remove_clients, the list
\* being built in process_clients, or run's loop variable c
Referenced(k) ==
    \/ k \in Registered
    \/ k \in Range(remove_clients)
    \/ k \in Range(rm)
    \/ c = k

Accepted(k) == fdOf[k] # 0

\* the socket of connection k is open in this process
SockOpen(k) == Accepted(k) /\ Referenced(k)

OpenFds == {FdSerial, FdServer} \cup {fdOf[k] : k \in {j \in Conns : SockOpen(j)}}

FirstClientFd == FdServer + 1

\* a key that counts the registered clients
FdByCount == FirstClientFd + Len(clients)

\* accept returns the lowest descriptor not in use
LowestFreeFd ==
    CHOOSE f \in FirstClientFd..(FirstClientFd + MaxConns) :
        /\ f \notin OpenFds
        /\ \A g \in FirstClientFd..(f - 1) : g \in OpenFds

\* Client.fileno
Fileno(k) == fdOf[k]

\* the descriptors select reports readable
ReadyFds ==
    (IF backlog # <<>> THEN {FdServer} ELSE {})
    \cup (IF serSt # "idle" THEN {FdSerial} ELSE {})
    \cup {clients[i].fd : i \in {j \in 1..Len(clients) :
              inq[clients[j].cl] # <<>> \/ st[clients[j].cl] # "up"}}

Last(s) == s[Len(s)]

Ev(e, k) == [ev |-> e, cl |-> k]

(***************************************************************************)
(* The stand-alone registry: the two statements run() applies to the dict  *)
(* clients, applied to any key in any order                                *)
(***************************************************************************)
RGFds == FirstClientFd..(FirstClientFd + MaxConns - 1)

RGInit ==
    /\ rgD = <<>>
    /\ rgKey = 0
    /\ rgOut = "init"
    /\ rgN = 0

\* clients[fd] = Client(...)
RGSet ==
    \E fd \in RGFds :
        /\ rgN < RGMaxOps
        /\ rgOut # "KeyError"
        /\ rgD' = DictSet(rgD, fd, rgN + 1)
        /\ rgKey' = fd
        /\ rgOut' = "set"
        /\ rgN' = rgN + 1

\* del clients[fd]
RGDel ==
    \E fd \in RGFds :
        /\ rgN < RGMaxOps
        /\ rgOut # "KeyError"
        /\ LET res == Del(rgD, fd)
           IN /\ rgD' = res.d
              /\ rgOut' = IF res.ok THEN "deleted" ELSE "KeyError"
        /\ rgKey' = fd
        /\ rgN' = rgN + 1

(***************************************************************************)
(* serial_client.py: wait_for_response                                     *)
(***************************************************************************)
\* PROMPT = ">"
PROMPT == 62
\* the bytes the device sends
WBytes == {NL, PROMPT, 65}

TimeoutMsg == "Timeout before prompt was found. Perhaps increase timeout?"

Front(s) == SubSeq(s, 1, Len(s) - 1)

WInit ==
    /\ wPc = "check"
    /\ wData = <<>>
    /\ wNl = FALSE
    /\ wFound = FALSE
    /\ wMsg = <<>>
    /\ wExit = "none"
    /\ wExpired = FALSE
    /\ wEof = FALSE
    /\ wAll = <<>>
    /\ wOut = <<>>

\* a prompt test that does not look at newline
IsPromptAnywhere(data, nl) == data = <<PROMPT>>

\* data == PROMPT.encode() and newline
IsPrompt(data, nl) == data = <<PROMPT>> /\ nl

\* if (time_left := start + timeout - time.time()) <= 0: break
WCheck ==
    /\ wPc = "check"
    /\ IF wExpired THEN wPc' = "report" /\ wExit' = "deadline"
                   ELSE wPc' = "read" /\ UNCHANGED wExit
    /\ UNCHANGED <<wData, wNl, wFound, wMsg, wExpired, wEof, wAll, wOut>>

\* data = interface.read(1, timeout=time_left) returns a byte;
\* found_prompt = data == PROMPT.encode() and newline
WReadByte ==
    /\ wPc = "read"
    /\ ~wEof
    /\ Len(wAll) < WMaxReads
    /\ \E b \in WBytes :
          /\ wData' = <<b>>
          /\ wAll' = Append(wAll, b)
          /\ wFound' = IsPrompt(<<b>>, wNl)
    /\ wPc' = "test"
    /\ UNCHANGED <<wNl, wMsg, wExit, wExpired, wEof, wOut>>

\* the read returns b"": the stream is at its end, or no byte came within
\* time_left (socket.timeout is caught, a serial read returns empty)
WReadEmpty ==
    /\ wPc = "read"
    /\ \/ wEof /\ UNCHANGED wExpired
       \/ wExpired' = TRUE
    /\ wData' = <<>>
    /\ wFound' = IsPrompt(<<>>, wNl)
    /\ wPc' = "test"
    /\ UNCHANGED <<wNl, wMsg, wExit, wEof, wAll, wOut>>

\* if found_prompt or time.time() >= start + timeout: break
\* newline = data == b"\n"; sys.stdout.buffer.write(data)
WTest ==
    /\ wPc = "test"
    /\ IF wFound \/ wExpired
       THEN /\ wPc' = "report"
            /\ wExit' = IF wFound THEN "prompt" ELSE "late"
            /\ UNCHANGED <<wNl, wOut>>
       ELSE /\ wNl' = (wData = <<NL>>)
            /\ wOut' = wOut \o wData
            /\ wPc' = "check"
            /\ UNCHANGED wExit
    /\ UNCHANGED <<wData, wFound, wMsg, wExpired, wEof, wAll>>

\* if not found_prompt: (if not newline: print("")); print("Timeout ...")
WReport ==
    /\ wPc = "report"
    /\ wMsg' = IF wFound THEN <<>>
               ELSE (IF wNl THEN <<>> ELSE <<"">>) \o <<TimeoutMsg>>
    /\ wPc' = "done"
    /\ UNCHANGED <<wData, wNl, wFound, wExit, wExpired, wEof, wAll, wOut>>

\* the clock passes start + timeout
WTick ==
    /\ wPc \notin {"report", "done"}
    /\ ~wExpired
    /\ wExpired' = TRUE
    /\ UNCHANGED <<wPc, wData, wNl, wFound, wMsg, wExit, wEof, wAll, wOut>>

\* the server closes the connection
WPeerEof ==
    /\ wPc \notin {"report", "done"}
    /\ ~wEof
    /\ wEof' = TRUE
    /\ UNCHANGED <<wPc, wData, wNl, wFound, wMsg, wExit, wExpired, wAll, wOut>>

(***************************************************************************)
(* Init                                                                    *)
(***************************************************************************)
RunInit ==
    /\ pc = "select"
    /\ r = {}
    /\ clients = <<>>
    /\ remove_clients = <<>>
    /\ c = 0
    /\ bq = <<>>
    /\ pq = <<>>
    /\ rm = <<>>
    /\ cbuf = [k \in Conns |-> LineBufInit]
    /\ fdOf = [k \in Conns |-> 0]
    /\ serbuf = LineBufInit
    /\ nconn = 0
    /\ backlog = <<>>
    /\ st = [k \in Conns |-> "up"]
    /\ inq = [k \in Conns |-> <<>>]
    /\ unread = [k \in Conns |-> 0]
    /\ serSt = "idle"
    /\ nsent = 0
    /\ rcvd = [k \in Conns |-> <<>>]
    /\ delivered = [k \in Conns |-> <<>>]
    /\ joined = [k \in Conns |-> 0]
    /\ serLog = <<>>
    /\ fwd = [k \in Conns |-> <<>>]
    /\ trace = <<>>

Init == LBInit /\ RunInit /\ RGInit /\ WInit

(***************************************************************************)
(* run(): one iteration is select, accept, process_serial,                 *)
(* process_clients and the removal loop, in this order                     *)
(***************************************************************************)
\* run() with process_clients called before process_serial
RunOrderClientsFirst == <<"accept", "clients", "serial", "remove">>

\* a loop body that processes the serial device before it accepts
RunOrderSerialFirst == <<"serial", "accept", "clients", "remove">>

RunOrder == <<"accept", "serial", "clients", "remove">>

\* the guards of the steps: if serversocket.fileno() in r, if ser.fileno() in r
Applies(p, rset) ==
    CASE p = "accept" -> FdServer \in rset
      [] p = "serial" -> FdSerial \in rset
      [] OTHER -> TRUE

\* the step of the loop body that is taken after step p when select
\* returned rset ("select" follows the last one)
NextPc(p, rset) ==
    LET i    == IF p = "select" THEN 0
                ELSE CHOOSE j \in 1..Len(RunOrder) : RunOrder[j] = p
        rest == {j \in (i + 1)..Len(RunOrder) : Applies(RunOrder[j], rset)}
    IN IF rest = {} THEN "select"
       ELSE RunOrder[CHOOSE j \in rest : \A m \in rest : j <= m]

\* fds = [...]; for c in clients.values(): ...; r, w, x = select.select(fds, [], [])
\* blocks until a descriptor is readable
Select ==
    /\ pc = "select"
    /\ ReadyFds # {}
    /\ r' = ReadyFds
    /\ c' = IF clients # <<>> THEN 0 ELSE c
    /\ pc' = NextPc("select", ReadyFds)
    /\ UNCHANGED <<clients, remove_clients, bq, pq, rm, cbuf, fdOf, serbuf>>
    /\ UNCHANGED <<alonevars, envvars, histvars>>

\* a Client that takes over the buffer of the last client of its descriptor
NewClientBufStale(fd) ==
    LET old == {j \in Conns : fdOf[j] = fd}
    IN IF old = {} THEN LineBufInit
       ELSE cbuf[CHOOSE j \in old : \A m \in old : m <= j]

\* Client.__init__: self.buf = LineBuf()
NewClientBuf(fd) == LineBufInit

\* if serversocket.fileno() in r: accept one connection and register it
AcceptConn ==
    /\ pc = "accept"
    /\ FdServer \in r
    /\ backlog # <<>>
    /\ LET k  == Head(backlog)
           fd == LowestFreeFd
       IN /\ backlog' = Tail(backlog)
          /\ fdOf' = [fdOf EXCEPT ![k] = fd]
          /\ cbuf' = [cbuf EXCEPT ![k] = NewClientBuf(fd)]
          /\ clients' = DictSet(clients, fd, k)
          /\ joined' = [joined EXCEPT ![k] = Len(serLog)]
          /\ trace' = Append(trace, Ev("accept", k))
    /\ pc' = NextPc("accept", r)
    /\ UNCHANGED <<r, remove_clients, c, bq, pq, rm, serbuf>>
    /\ UNCHANGED <<nconn, st, inq, unread, serSt>>
    /\ UNCHANGED <<nsent, serLog, rcvd, fwd, delivered>>
    /\ UNCHANGED alonevars

\* process_serial writing only to the clients select reported
BroadcastTargetsReady == ClientsOf(SelectSeq(clients, LAMBDA e : e.fd \in r))

\* for c in clients.values(): the clients process_serial writes to
BroadcastTargets == ClientsOf(clients)

\* process_serial: data = ser.read() (Serial.read: one byte of the device,
\* appended to the Serial object's LineBuf), echoed, then broadcast
SerialRead ==
    /\ pc = "serial"
    /\ FdSerial \in r
    /\ serSt = "data"
    /\ LET b == SerialByte(Len(serLog) + 1)
       IN /\ serbuf' = LineBufWrite(serbuf, <<b>>)
          /\ serLog' = Append(serLog, b)
    /\ serSt' = "idle"
    /\ bq' = BroadcastTargets
    /\ pc' = "bcast"
    /\ trace' = Append(trace, Ev("serread", 0))
    /\ UNCHANGED <<r, clients, remove_clients, c, pq, rm, cbuf, fdOf>>
    /\ UNCHANGED <<nconn, backlog, st, inq, unread>>
    /\ UNCHANGED <<nsent, rcvd, fwd, delivered, joined>>
    /\ UNCHANGED alonevars

\* the device is readable but yields no data: Serial.read returns None (or
\* the device raises) and data.decode fails; nothing catches it
SerialFail ==
    /\ pc = "serial"
    /\ FdSerial \in r
    /\ serSt = "broken"
    /\ pc' = "crashed"
    /\ UNCHANGED <<r, clients, remove_clients, c, bq, pq, rm, cbuf, fdOf,
                   serbuf>>
    /\ UNCHANGED <<alonevars, envvars, histvars>>

\* the data process_serial broadcasts: the bytes of its one read
CurData == <<Last(serLog)>>

\* sock.send on the blocking socket of k returns once the bytes are in the
\* send path, which holds SndBuf bytes the peer has not read
CanSend(k, d) == unread[k] + Len(d) <= SndBuf

\* Client.write: try: self.sock.send(data) except OSError: pass
\* (a peer that closed or reset the connection gets nothing)
ClientWrite(k, d) ==
    IF st[k] = "up"
    THEN /\ CanSend(k, d)
         /\ delivered' = [delivered EXCEPT ![k] = @ \o d]
         /\ unread' = [unread EXCEPT ![k] = @ + Len(d)]
    ELSE UNCHANGED <<delivered, unread>>

\* for c in clients.values(): c.write(data)
BcastWrite ==
    /\ pc = "bcast"
    /\ bq # <<>>
    /\ ClientWrite(Head(bq), CurData)
    /\ bq' = Tail(bq)
    /\ trace' = Append(trace, Ev("send", Head(bq)))
    /\ UNCHANGED <<pc, r, clients, remove_clients, c, pq, rm, cbuf, fdOf,
                   serbuf>>
    /\ UNCHANGED <<nconn, backlog, st, inq, serSt>>
    /\ UNCHANGED <<nsent, serLog, rcvd, fwd, joined>>
    /\ UNCHANGED alonevars

BcastDone ==
    /\ pc = "bcast"
    /\ bq = <<>>
    /\ pc' = NextPc("serial", r)
    /\ UNCHANGED <<r, clients, remove_clients, c, bq, pq, rm, cbuf, fdOf,
                   serbuf>>
    /\ UNCHANGED <<alonevars, envvars, histvars>>

\* a process_clients that passes over the first ready client
ReadyClientsRest ==
    LET rc == ClientsOf(SelectSeq(clients, LAMBDA e : e.fd \in r))
    IN IF rc = <<>> THEN rc ELSE Tail(rc)

\* ready_clients = [c for fd, c in clients.items() if fd in r]
ReadyClients == ClientsOf(SelectSeq(clients, LAMBDA e : e.fd \in r))

\* the call process_clients(ready_clients, ser): remove_clients = []
ClientsEnter ==
    /\ pc = "clients"
    /\ pq' = ReadyClients
    /\ rm' = <<>>
    /\ pc' = "reading"
    /\ UNCHANGED <<r, clients, remove_clients, c, bq, cbuf, fdOf, serbuf>>
    /\ UNCHANGED <<alonevars, envvars, histvars>>

\* sock.recv(RecvSize): the bytes that have arrived, at most RecvSize
RecvLen(k) == Min(Len(inq[k]), RecvSize)

\* data = c.read() returned bytes: they go to the client's LineBuf, then
\* while line := c.readline(): ser.write(line)
ClientReadData ==
    /\ pc = "reading"
    /\ pq # <<>>
    /\ LET k == Head(pq)
       IN /\ inq[k] # <<>>
          /\ LET n    == RecvLen(k)
                 data == SubSeq(inq[k], 1, n)
                 dr   == Drain(LineBufWrite(cbuf[k], data))
             IN /\ inq' = [inq EXCEPT ![k] = SubSeq(@, n + 1, Len(@))]
                /\ rcvd' = [rcvd EXCEPT ![k] = @ \o data]
                /\ cbuf' = [cbuf EXCEPT ![k] = dr.buf]
                /\ fwd' = [fwd EXCEPT ![k] = @ \o dr.lines]
                /\ trace' = Append(trace, Ev("recv", k))
                              \o [i \in 1..Len(dr.lines) |-> Ev("serwrite", k)]
    /\ pq' = Tail(pq)
    /\ UNCHANGED <<pc, r, clients, remove_clients, c, bq, rm, fdOf, serbuf>>
    /\ UNCHANGED <<nconn, backlog, st, unread, serSt>>
    /\ UNCHANGED <<nsent, serLog, delivered, joined>>
    /\ UNCHANGED alonevars

\* a read that deletes the client from the registry as soon as it fails
ClientReadNoneNow ==
    /\ pc = "reading"
    /\ pq # <<>>
    /\ LET k == Head(pq)
       IN /\ st[k] = "closed"
          /\ inq[k] = <<>>
          /\ rm' = Append(rm, k)
          /\ clients' = DictDel(clients, Fileno(k))
          /\ trace' = trace \o <<Ev("recv", k), Ev("none", k)>>
    /\ pq' = Tail(pq)
    /\ UNCHANGED <<pc, r, remove_clients, c, bq, cbuf, fdOf, serbuf>>
    /\ UNCHANGED <<nsent, serLog, rcvd, fwd, delivered, joined>>
    /\ UNCHANGED <<alonevars, envvars>>

\* c.read() returned None (recv raised OSError or returned b""):
\* remove_clients.append(c); continue
ClientReadNone ==
    /\ pc = "reading"
    /\ pq # <<>>
    /\ LET k == Head(pq)
       IN /\ st[k] = "closed"
          /\ inq[k] = <<>>
          /\ rm' = Append(rm, k)
          /\ trace' = trace \o <<Ev("recv", k), Ev("none", k)>>
    /\ pq' = Tail(pq)
    /\ UNCHANGED <<pc, r, clients, remove_clients, c, bq, cbuf, fdOf, serbuf>>
    /\ UNCHANGED <<nsent, serLog, rcvd, fwd, delivered, joined>>
    /\ UNCHANGED <<alonevars, envvars>>

\* return remove_clients
ClientsDone ==
    /\ pc = "reading"
    /\ pq = <<>>
    /\ remove_clients' = rm
    /\ rm' = <<>>
    /\ pc' = NextPc("clients", r)
    /\ UNCHANGED <<r, clients, c, bq, pq, cbuf, fdOf, serbuf>>
    /\ UNCHANGED <<alonevars, envvars, histvars>>

\* a removal that drops every client read in the iteration
RemoveLoopReady(d, rl) ==
    IF rl = <<>> THEN [d |-> d, ok |-> TRUE]
    ELSE [d |-> SelectSeq(d, LAMBDA e : e.fd \notin r), ok |-> TRUE]

\* for c in remove_clients: del clients[c.fileno()]
\* (ok = FALSE: a key was missing and del raised KeyError)
RECURSIVE RemoveLoop(_, _)
RemoveLoop(d, rl) ==
    IF rl = <<>> THEN [d |-> d, ok |-> TRUE]
    ELSE LET res == Del(d, Fileno(Head(rl)))
         IN IF res.ok THEN RemoveLoop(res.d, Tail(rl)) ELSE res

\* the record of a client ends with its removal
Forget(f, rl, v) == [k \in Conns |-> IF k \in Range(rl) THEN v ELSE f[k]]

Remove ==
    /\ pc = "remove"
    /\ LET res == RemoveLoop(clients, remove_clients)
       IN /\ clients' = res.d
          /\ pc' = IF res.ok THEN NextPc("remove", r) ELSE "crashed"
    /\ c' = IF remove_clients # <<>> THEN Last(remove_clients) ELSE c
    /\ r' = {}
    /\ trace' = <<>>
    /\ rcvd' = Forget(rcvd, remove_clients, <<>>)
    /\ fwd' = Forget(fwd, remove_clients, <<>>)
    /\ delivered' = Forget(delivered, remove_clients, <<>>)
    /\ joined' = Forget(joined, remove_clients, 0)
    /\ UNCHANGED <<remove_clients, bq, pq, rm, cbuf, fdOf, serbuf>>
    /\ UNCHANGED <<nsent, serLog>>
    /\ UNCHANGED <<alonevars, envvars>>

Loop ==
    \/ Select
    \/ AcceptConn
    \/ SerialRead
    \/ SerialFail
    \/ BcastWrite
    \/ BcastDone
    \/ ClientsEnter
    \/ ClientReadData
    \/ ClientReadNone
    \/ ClientsDone
    \/ Remove

(***************************************************************************)
(* Environment: the peers, the kernel and the serial device                *)
(***************************************************************************)
\* The process sees the environment only through its system calls.  An
\* event that happens inside an iteration is placed at the last point where
\* it still changes what the next call sees: while the loop is in select
\* (AtSelect), or while process_serial is sending (AtSend: a peer that
\* closes, resets or reads between select's return and the send to it).
\* A peer's bytes and its close count from the accept of its connection
\* (before that no call looks at them), and a failure of the serial device
\* is the last event before select returns.
AtSelect == pc = "select" /\ serSt # "broken"

AtSend == pc = "bcast"

\* the connection of k exists for its peer: queued for accept, or accepted
\* and not closed by this process
Connected(k) == k <= nconn /\ (k \in Range(backlog) \/ SockOpen(k))

\* the inputs of the run so far
Inputs == nconn + nsent + Len(serLog) + (IF serSt = "data" THEN 1 ELSE 0)

\* peers that are connected and have not closed
Live == {k \in Conns : Connected(k) /\ st[k] = "up"}

\* a peer connects
PeerConnect ==
    /\ AtSelect
    /\ nconn < MaxConns
    /\ Inputs < MaxInputs
    /\ Cardinality(Live) < MaxLive
    /\ nconn' = nconn + 1
    /\ backlog' = Append(backlog, nconn + 1)
    /\ UNCHANGED <<st, inq, unread, serSt>>
    /\ UNCHANGED <<alonevars, runvars, histvars>>

\* a peer sends one byte
PeerSend ==
    /\ AtSelect
    /\ nsent < MaxClientBytes
    /\ Inputs < MaxInputs
    /\ \E k \in Conns, b \in ClientBytes :
          /\ SockOpen(k)
          /\ st[k] = "up"
          /\ inq' = [inq EXCEPT ![k] = Append(@, b)]
    /\ nsent' = nsent + 1
    /\ UNCHANGED <<nconn, backlog, st, unread, serSt>>
    /\ UNCHANGED <<serLog, trace, rcvd, fwd, delivered, joined>>
    /\ UNCHANGED <<alonevars, runvars>>

\* a peer closes its connection: what it sent before can still be
\* received, then recv returns b""
PeerClose ==
    /\ (AtSelect \/ AtSend)
    /\ \E k \in Conns :
          /\ SockOpen(k)
          /\ st[k] = "up"
          /\ st' = [st EXCEPT ![k] = "closed"]
          /\ unread' = [unread EXCEPT ![k] = 0]
    /\ UNCHANGED <<nconn, backlog, inq, serSt>>
    /\ UNCHANGED <<alonevars, runvars, histvars>>

\* a peer resets its connection: bytes not yet received are lost and recv
\* raises OSError
PeerReset ==
    /\ (AtSelect \/ AtSend)
    /\ \E k \in Conns :
          /\ SockOpen(k)
          /\ st[k] = "up"
          /\ inq[k] # <<>>
          /\ st' = [st EXCEPT ![k] = "closed"]
          /\ inq' = [inq EXCEPT ![k] = <<>>]
          /\ unread' = [unread EXCEPT ![k] = 0]
    /\ UNCHANGED <<nconn, backlog, serSt>>
    /\ UNCHANGED <<alonevars, runvars, histvars>>

\* a peer reads what was sent to it
PeerDrain ==
    /\ AtSend
    /\ \E k \in Conns :
          /\ st[k] = "up"
          /\ unread[k] > 0
          /\ unread' = [unread EXCEPT ![k] = 0]
    /\ UNCHANGED <<nconn, backlog, st, inq, serSt>>
    /\ UNCHANGED <<alonevars, runvars, histvars>>

\* the serial device has a byte to read
SerialArrive ==
    /\ AtSelect
    /\ serSt = "idle"
    /\ Len(serLog) < MaxSerialReads
    /\ Inputs < MaxInputs
    /\ serSt' = "data"
    /\ UNCHANGED <<nconn, backlog, st, inq, unread>>
    /\ UNCHANGED <<alonevars, runvars, histvars>>

\* the serial device fails (unplugged): readable, but no data
SerialBreak ==
    /\ AtSelect
    /\ serSt # "broken"
    /\ serSt' = "broken"
    /\ UNCHANGED <<nconn, backlog, st, inq, unread>>
    /\ UNCHANGED <<alonevars, runvars, histvars>>

Env ==
    \/ PeerConnect
    \/ PeerSend
    \/ PeerClose
    \/ PeerReset
    \/ PeerDrain
    \/ SerialArrive
    \/ SerialBreak

(***************************************************************************)
(* Specifications                                                          *)
(***************************************************************************)
Next == Loop \/ Env

\* the bridge with its environment
Spec == Init /\ [][Next]_vars

\* the loop takes its next step whenever it can (the peers and the device
\* owe nothing)
FairSpec == Spec /\ WF_vars(Loop)

LBNext ==
    /\ LBWrite \/ LBReadline
    /\ UNCHANGED <<rgvars, wvars, runvars, envvars, histvars>>

\* a LineBuf on its own
SpecLB == Init /\ [][LBNext]_vars

RGNext ==
    /\ RGSet \/ RGDel
    /\ UNCHANGED <<lbvars, wvars, runvars, envvars, histvars>>

\* the registry on its own
SpecRG == Init /\ [][RGNext]_vars

WNext ==
    /\ WCheck \/ WReadByte \/ WReadEmpty \/ WTest \/ WReport \/ WTick
       \/ WPeerEof
    /\ UNCHANGED <<lbvars, rgvars, runvars, envvars, histvars>>

\* wait_for_response with the device and the clock
SpecWR == Init /\ [][WNext]_vars

(***************************************************************************)
(* Properties                                                              *)
(***************************************************************************)
\* the serial bytes a registered client is owed: those read since it was
\* registered, but for the read being broadcast while its turn has not come
Owed(k) ==
    LET n == IF pc = "bcast" /\ k \in Range(bq) THEN Len(serLog) - 1
             ELSE Len(serLog)
    IN SubSeq(serLog, joined[k] + 1, n)

\* C1 as stated: every registered client receives exactly the bytes of the
\* serial reads made since it was registered, each once and in order.
C1_BroadcastToRegistered ==
    \A k \in Registered : delivered[k] = Owed(k)

\* C1 amended: every registered client whose peer has not closed or reset
\* its connection receives exactly the bytes of the serial reads made since
\* it was registered, each once, in order, and nothing else.
C1_BroadcastToConnected ==
    \A k \in Registered : st[k] = "up" => delivered[k] = Owed(k)

\* two connected clients that each got two serial reads, in order
C1_Witness ==
    \E j, k \in Registered :
        /\ j # k
        /\ st[j] = "up" /\ st[k] = "up"
        /\ Len(delivered[j]) = 2 /\ delivered[j] = serLog
        /\ Len(delivered[k]) = 2

\* C2: the writes made to the serial device for a client are exactly the
\* newline-terminated lines of the concatenation of what its reads returned,
\* each once and in order, however the stream was cut into reads.
C2_LineReassembly ==
    \A k \in Conns : fwd[k] = Lines(rcvd[k])

\* C3: on a LineBuf that was written and then read, the lines returned so
\* far are the first newline-terminated segments of what was written, in
\* order, and readline returns None only when as many lines were returned as
\* the written bytes hold newlines.
C3_DrainCount ==
    ~lbMixed =>
        /\ Len(lbOut) <= Len(Lines(lbIn))
        /\ lbOut = SubSeq(Lines(lbIn), 1, Len(lbOut))
        /\ lbLast = "none" => Len(lbOut) = CountNL(lbIn)

\* two lines written in several chunks and drained to the None result
C3_Witness ==
    /\ ~lbMixed
    /\ lbLast = "none"
    /\ Len(lbOut) = 2
    /\ Len(lbIn) = LBMaxIn
    /\ Len(lbOut[1]) > 1

\* what C4 needs of every state: lines returned so far, then the bytes
\* held, are the bytes written so far
C4_Conserved == Flatten(lbOut) \o lb.data = lbIn

\* what C4 needs of every step: a readline that returns None leaves the
\* buffer as it was
C4_NoneKeeps == (lbLast' = "none" /\ lbIn' = lbIn) => lb'.data = lb.data

\* C4: after any interleaving of write and readline on a LineBuf no byte is
\* lost, reordered or duplicated, and a readline that returns None leaves
\* the buffer unchanged.
C4_ByteConservation == [](C4_Conserved) /\ [][C4_NoneKeeps]_vars

\* C5: what is written to the serial device for a client is taken, in order,
\* from the bytes it sent up to its last newline: bytes not yet followed by
\* a newline are never written, a client without a newline causes no write,
\* and a client starts with an empty buffer whatever a removed client of the
\* same descriptor left behind.
C5_NoPartialForward ==
    \A k \in Conns :
        /\ IsSubsequence(Flatten(fwd[k]), UpToLastNL(rcvd[k]))
        /\ (k \in Registered /\ rcvd[k] = <<>>) => cbuf[k].data = <<>>

\* a client that took the descriptor of a client removed with partial data
\* has had a line forwarded
C5_Witness ==
    \E j, k \in Conns :
        /\ j < k
        /\ fdOf[j] = fdOf[k] /\ fdOf[k] # 0
        /\ cbuf[j].data # <<>>
        /\ k \in Registered
        /\ fwd[k] # <<>>

\* the read of client k returned None (recv raised or returned b"")
ReadFailed(k) ==
    /\ pc = "reading" /\ pq # <<>> /\ Head(pq) = k
    /\ rm' = Append(rm, k)

\* the send to client k failed
SendFailed(k) ==
    /\ pc = "bcast" /\ bq # <<>> /\ Head(bq) = k
    /\ bq' = Tail(bq)
    /\ st[k] # "up"

\* the removal loop ran
Removed == pc = "remove" /\ pc' # "remove"

C6_Step ==
    /\ \A k \in Conns :
          (ReadFailed(k) \/ SendFailed(k)) =>
              /\ pc' # "crashed"
              /\ clients' = clients
              /\ \A j \in Conns \ {k} : cbuf'[j] = cbuf[j]
    /\ Removed =>
          /\ pc' # "crashed"
          /\ clients' = SelectSeq(clients,
                                  LAMBDA e : e.cl \notin Range(remove_clients))
          /\ cbuf' = cbuf

\* C6: a failed read or send on one client's socket does not stop the loop
\* and changes no registry entry and no other client's buffer; the removal
\* loop then deletes the clients whose read failed and nothing else.
C6_ErrorIsolation == [][C6_Step]_vars

\* one client was removed while another, holding a partial line, stays
C6_Witness ==
    /\ pc = "select"
    /\ remove_clients # <<>>
    /\ \E k \in Registered : cbuf[k].data # <<>>

\* C7: after every iteration every accepted socket that is still open
\* belongs to a registered client.
C7_RemovalClosesSocket ==
    pc = "select" => \A k \in Conns : SockOpen(k) => k \in Registered

\* the peer of client k has closed and nothing of it is left to read
Gone(k) == k \in Registered /\ st[k] = "closed" /\ inq[k] = <<>>

\* C8: a registered client whose peer has closed its connection is
\* eventually removed from the registry (or the process has ended).
C8_DisconnectDetected ==
    \A k \in Conns : Gone(k) ~> (k \notin Registered \/ pc = "crashed")

\* positions of the events of one kind in the current iteration
EventsAt(kinds) == {i \in 1..Len(trace) : trace[i].ev \in kinds}

\* C9: in an iteration that read the serial device, every registered client
\* has been written to before a client is read, and no write to a client
\* follows a line written to the serial device.
C9_BroadcastFirst ==
    /\ \A i \in EventsAt({"recv", "serwrite"}) :
          \A j \in EventsAt({"serread", "send"}) : j < i
    /\ (EventsAt({"serread"}) # {} /\ EventsAt({"recv", "serwrite"}) # {}) =>
          {trace[i].cl : i \in EventsAt({"send"})} = Registered

\* an iteration that read the serial device, wrote it to two clients and
\* then forwarded a client's line
C9_Witness ==
    /\ EventsAt({"serread"}) # {}
    /\ Cardinality(EventsAt({"send"})) = 2
    /\ EventsAt({"serwrite"}) # {}

\* C10: the loop never stays inside an iteration: from every step of the
\* loop body it gets back to select (or the process has ended).
C10_NoStall == (pc \notin {"select", "crashed"}) ~> (pc \in {"select", "crashed"})

\* a del statement whose key is not in the registry
RemovesAbsent ==
    /\ rgN' = rgN + 1
    /\ rgOut' \in {"deleted", "KeyError"}
    /\ rgKey' \notin Keys(rgD)

RunPcs == {"select", "accept", "serial", "bcast", "clients", "reading",
           "remove"}

\* process_serial runs on a device that is readable and yields no data
SerialFailStep == pc = "serial" /\ serSt = "broken" /\ pc' # pc

\* C12: when the serial device is reported ready but its read yields no
\* data or fails, run() stops, nothing is broadcast for that read, and the
\* stop is a clean termination, not an error nothing handles.
C12_SerialFailureStopsCleanly ==
    [][SerialFailStep =>
          /\ pc' \notin RunPcs
          /\ pc' # "crashed"
          /\ delivered' = delivered
          /\ serLog' = serLog]_vars

\* the clients whose read returned None in the current iteration
Marked == {k \in Conns : Ev("none", k) \in Range(trace)}

\* accept returned a connection
Accepts == pc = "accept" /\ backlog' # backlog

C13_Keys ==
    /\ \A i \in 1..Len(clients) : clients[i].fd = Fileno(clients[i].cl)
    /\ \A i, j \in 1..Len(clients) :
          (clients[i].fd = clients[j].fd \/ clients[i].cl = clients[j].cl)
              => i = j

C13_Step ==
    /\ Accepts =>
          /\ fdOf'[Head(backlog)] \notin Keys(clients)
          /\ clients' = Append(clients, [fd |-> fdOf'[Head(backlog)],
                                         cl |-> Head(backlog)])
    /\ Removed =>
          clients' = SelectSeq(clients, LAMBDA e : e.cl \notin Marked)

\* C13: every registry key is the descriptor of the socket of the client
\* stored under it; accept registers a new connection under a key that is
\* not registered, keeping every entry; the removal at the end of an
\* iteration deletes the entries of the clients marked in that iteration
\* and no other entry.
C13_IdentifierStability == []C13_Keys /\ [][C13_Step]_vars

\* a new client holds the descriptor a removed client had, next to a
\* client that was registered all along
C13_Witness ==
    /\ Len(clients) = 2
    /\ \E k \in Registered : \E j \in Conns \ Registered :
          Accepted(j) /\ fdOf[j] = fdOf[k]

\* the events of the kinds given that concern client k
EventsOf(kinds, k) ==
    {i \in 1..Len(trace) : trace[i].ev \in kinds /\ trace[i].cl = k}

\* the registered clients whose descriptor select reported
ReadyNow == {k \in Registered : Fileno(k) \in r}

\* C14: in each iteration at most one connection is accepted and at most
\* one serial read is made, whatever is pending; no client is read twice,
\* and once process_clients has returned every client that select
\* reported ready has been read exactly once and no other client was read.
C14_ServiceOncePerIteration ==
    /\ Cardinality(EventsAt({"accept"})) <= 1
    /\ Cardinality(EventsAt({"serread"})) <= 1
    /\ \A k \in Conns : Cardinality(EventsOf({"recv"}, k)) <= 1
    /\ pc = "remove" =>
          \A k \in Conns :
              Cardinality(EventsOf({"recv"}, k)) = IF k \in ReadyNow THEN 1 ELSE 0

\* an iteration that accepted one of two pending connections, read the
\* serial device and read a ready client
C14_Witness ==
    /\ pc = "remove"
    /\ EventsAt({"accept"}) # {}
    /\ backlog # <<>>
    /\ EventsAt({"serread"}) # {}
    /\ ReadyNow # {}

\* process_clients is running
InProcessClients == pc \in {"clients", "reading"}

C15_Kept ==
    /\ pc = "reading" => Range(rm) \subseteq Registered
    /\ pc = "remove" => Range(remove_clients) \subseteq Registered

C15_Step ==
    /\ InProcessClients => clients' = clients
    /\ Removed =>
          /\ \A k \in ReadyNow : EventsOf({"recv"}, k) # {}
          /\ Marked \subseteq ReadyNow
          /\ Registered \ Registered' = Marked
          /\ Registered' \subseteq Registered

\* C15: process_clients leaves the registry unchanged; a client whose read
\* returned None stays registered until every ready client of the iteration
\* has been read; the clients removed at the end of the iteration are the
\* ready clients whose read returned None, and no other.
C15_DeferredRemoval == []C15_Kept /\ [][C15_Step]_vars

\* a client whose read failed is still registered while another ready
\* client waits to be read
C15_Witness ==
    /\ pc = "reading"
    /\ rm # <<>>
    /\ pq # <<>>
    /\ Range(rm) \subseteq Registered

\* the clients accepted in the current iteration
AcceptedNow == {k \in Conns : EventsOf({"accept"}, k) # {}}

\* the serial device was read in the current iteration and process_serial
\* has returned
SerialProcessed ==
    EventsAt({"serread"}) # {} /\ pc \in {"clients", "reading", "remove"}

C16_Order(k) ==
    /\ k \in Registered
    /\ \A i \in EventsOf({"accept"}, k) : \A j \in EventsAt({"serread"}) : i < j
    /\ Fileno(k) \notin r
    /\ EventsOf({"recv"}, k) = {}

\* C16 as stated: a connection accepted in an iteration is registered before
\* the serial device is processed, it receives the bytes of that iteration's
\* serial read, and it is not read in that iteration.
C16_AcceptBeforeBroadcast ==
    \A k \in AcceptedNow :
        /\ C16_Order(k)
        /\ SerialProcessed => delivered[k] = <<Last(serLog)>>

\* C16: a connection accepted in an iteration is registered before the
\* serial device is processed, it is not read in that iteration, and if its
\* peer has not closed it meanwhile it receives the bytes of that
\* iteration's serial read.
C16_AcceptBeforeBroadcastIntact ==
    \A k \in AcceptedNow :
        /\ C16_Order(k)
        /\ (SerialProcessed /\ st[k] = "up") => delivered[k] = <<Last(serLog)>>

\* the client accepted in this iteration got the serial byte of this
\* iteration while an older client was read
C16_Witness ==
    /\ pc = "remove"
    /\ \E k \in AcceptedNow :
          /\ st[k] = "up"
          /\ EventsAt({"serread"}) # {}
          /\ delivered[k] = <<Last(serLog)>>
          /\ \E j \in Registered \ {k} : EventsOf({"recv"}, j) # {}

\* one complete line: non-empty, ends with a newline, holds no other newline
WholeLine(l) ==
    /\ Len(l) >= 1
    /\ l[Len(l)] = NL
    /\ \A i \in 1..(Len(l) - 1) : l[i] # NL

\* l is a run of consecutive elements of s
IsInfix(l, s) ==
    \E i \in 0..(Len(s) - Len(l)) : SubSeq(s, i + 1, i + Len(l)) = l

\* C17: every write to the serial device is one complete line of one
\* client: non-empty, ending with a newline, holding no other newline, and
\* made of consecutive bytes received from that client alone.
C17_WholeLineWrites ==
    \A k \in Conns : \A i \in 1..Len(fwd[k]) :
        /\ WholeLine(fwd[k][i])
        /\ IsInfix(fwd[k][i], rcvd[k])

\* lines of two clients were written, one of them longer than a newline
C17_Witness ==
    \E j, k \in Registered :
        /\ j # k
        /\ fwd[j] # <<>>
        /\ \E i \in 1..Len(fwd[k]) : Len(fwd[k][i]) >= 2

C19_Holds == serbuf.data = serLog /\ serbuf.pos = Len(serLog)

C19_Grows == Len(serbuf'.data) >= Len(serbuf.data)

\* C19: the Serial object's buffer is never drained: it holds every byte
\* read from the serial device since startup, so its length is the number
\* of bytes read, and it never gets shorter.
C19_SerialBufferGrows == []C19_Holds /\ [][C19_Grows]_vars

\* two serial reads have been buffered
C19_Witness == Len(serbuf.data) = 2 /\ Len(serLog) = 2

\* the bytes read end with a newline followed by the prompt byte
EndsWithPrompt(s) ==
    Len(s) >= 2 /\ s[Len(s) - 1] = NL /\ s[Len(s)] = PROMPT

\* the last read returned a byte and the loop was left because the clock
\* had passed start + timeout when the byte was looked at
LateByte == wExit = "late" /\ wData # <<>>

\* what wait_for_response reports at its end
C20_Report ==
    /\ wFound <=> EndsWithPrompt(wAll)
    /\ wFound => wMsg = <<>>
    /\ ~wFound => (wMsg # <<>> /\ wMsg[Len(wMsg)] = TimeoutMsg)

\* C20 as stated: wait_for_response ends with the prompt found exactly when
\* the bytes it read end with a newline followed by '>'; every byte it read
\* but the prompt byte is printed, in the order read (a '>' that does not
\* follow a newline included); without the prompt it reports a timeout.
C20_PromptDetection ==
    /\ wOut \in {wAll, Front(wAll)}
    /\ wPc = "done" =>
          /\ C20_Report
          /\ wOut = IF wFound THEN Front(wAll) ELSE wAll

\* C20: wait_for_response ends with the prompt found exactly when the bytes
\* it read end with a newline followed by '>'; every byte it read is
\* printed in the order read (a '>' that does not follow a newline
\* included), except the last one when that is the prompt byte or when the
\* clock had passed the timeout by the time the loop looked at it; without
\* the prompt it reports a timeout.
C20_PromptDetectionInTime ==
    /\ wOut \in {wAll, Front(wAll)}
    /\ wPc = "done" =>
          /\ C20_Report
          /\ wOut = IF wFound \/ LateByte THEN Front(wAll) ELSE wAll

\* the prompt was found after a '>' that was printed as ordinary output
C20_Witness ==
    /\ wPc = "done"
    /\ wFound
    /\ wMsg = <<>>
    /\ \E i \in 1..Len(wOut) : wOut[i] = PROMPT

====
